---- MODULE Spec2Model ----
(***************************************************************************)
(* Room / session coordination core of the party-game backend.            *)
(*                                                                         *)
(* The model follows one room document of the `rooms` collection through   *)
(* the operations of services/roomService.js (createRoom, joinRoom,        *)
(* leaveRoom, rejoinRoom, deleteRoom, startRoom, rotatePlayerTurn), the    *)
(* submit-vote and submit-answer routes, and the connections and messages  *)
(* of the live channel (socket handlers) with the rotation timer that      *)
(* submit_answer starts.  Every store access of the code                   *)
(* (`get`, `update`) is a read or a field-wise write of that document.     *)
(*                                                                         *)
(*   Spec        room membership, each operation atomic                    *)
(*   SpecStart   starting a game on a room with votes and answers          *)
(*   SpecRounds  turn rotation and the status of the room over 10 rounds   *)
(*   SpecConc    joinRoom calls interleaved at their store accesses        *)
(*   SpecTurns   turn order in a game of three with votes and answers      *)
(*   SpecTurnsConc  rotatePlayerTurn calls interleaved at store accesses   *)
(*   SpecBallots votes cast over the routes and over the live channel      *)
(*   SpecTally   the completion tally of the live channel's submit_vote    *)
(*   SpecTimers  the rotation timer started by the live submit_answer      *)
(*   SpecAnswers answers over both channels, timers run fairly             *)
(*   SpecHostTurn  the host's next_turn against a pending rotation timer   *)
(*   SpecHost    the host-only operations and the transfer of the host     *)
(*   SpecMembers live messages sent by a member and by a stranger          *)
(*   SpecSockets connections, their registry and join_room / leave_room    *)
(*   SpecEvents  the live messages with the events they deliver            *)
(*   SpecVotesConc  submit_vote messages interleaved at store accesses     *)
(*   SpecLeaveConc  leaveRoom of the host interleaved with joinRoom calls  *)
(*   SpecCodes   room codes over the documents of the rooms collection     *)
(*   SpecFriends the friendships collection of services/friendService.js   *)
(*   SpecTurnVotes  stored votes while the host sets the turn              *)
(*   SpecValidate   validateRoomCode next to joinRoom and leaveRoom        *)
(*   SpecTour    runs of consecutive rotations over the active players     *)
(*   SpecJoining connections closing while join_room awaits its lookup     *)
(*                                                                         *)
(* Timestamps are kept as "unset" / "stamped" / "null"; the text of an     *)
(* answer and the display fields of a player are left out.                 *)
(***************************************************************************)
EXTENDS Integers, Sequences, FiniteSets, TLC

\* ---------------------------------------------------------------- bounds
NumUsers == 3
MaxCap == 3
NumPrompts == 4
NumDraws == 2
MaxRotationsCounted == 11
MaxTimeouts == 2
MaxSockets == 2
MaxRooms == 3
NumCodes == 2
MaxDocs == 3

\* ------------------------------------------------------ program constants
MAX_ROUNDS == 10
MIN_PLAYERS_TO_START == 2
MIN_MAX_PLAYERS == 2
QUESTIONS_PER_TURN == 3

Users == 1..NumUsers
NoUser == 0
NoQuestion == 0
NoSocket == 0
PromptIds == 1..NumPrompts
\* the prompt ids a vote may name
VoteChoices == {1}
\* the prompt ids a user may move a vote between
BallotChoices == {1, 2}
\* the users that act on the room while a game is started and played
StartPlayers == {1, 2, 3}
RoundPlayers == {1, 2}
Guests == {2, 3}
NoRoom == [exists |-> FALSE]
\* the values generateRoomCode may return
Codes == 1..NumCodes

VARIABLES
    room,      \* the stored room document, NoRoom before createRoom
    result,    \* outcome of the operation that ran last
    calls,     \* joinRoom calls in flight between their store accesses
    reported,  \* users whose in-flight joinRoom has returned successfully
    rotations, \* rotatePlayerTurn calls since the last successful startRoom
    turnCalls, \* rotatePlayerTurn calls in flight between their store accesses
    turn_rotation, \* global[`turn_rotation_${roomId}`] holds a timeout handle
    timeouts,  \* setTimeout callbacks scheduled, neither run nor cleared
    expired,   \* callbacks started whose rotatePlayerTurn has not returned
    sockets,   \* the connections made so far: their user, and whether open
    activeConnections, \* the Map userId -> socket id
    roomConnections,   \* the Set of socket ids kept for the room
    subscribed, \* the sockets joined to the channel `room:${room.id}`
    emitted,   \* the events sent while the last live message was handled
    voteCalls, \* submit_vote messages in flight between their store accesses
    vote_update, \* the votes carried by the vote_update event sent last
    rooms,     \* the rooms collection: code and status of every document
    friendships, \* the friendships collection, by document id
    leaveCalls, \* leaveRoom calls in flight between their store accesses
    tour,      \* the turns given by the latest unbroken run of rotations
    joining    \* sockets whose join_room awaits the room lookup

\* the state of the live channel and of the calls it makes
live == <<turnCalls, turn_rotation, timeouts, expired>>

\* the connections of the live channel and what was last sent over them
conn == <<sockets, activeConnections, roomConnections, subscribed, emitted>>

\* the record of the rotations and the join_room messages in flight
rest == <<tour, joining>>

\* the state of the handlers that are followed step by step
more == <<voteCalls, vote_update, rooms, friendships, leaveCalls, rest>>

vars == <<room, result, calls, reported, rotations, live, conn, more>>

\* --------------------------------------------------------------- helpers
\* room.players.filter(p => p.isActive !== false)
ActivePlayers(ps) == SelectSeq(ps, LAMBDA p : p.isActive)

ActiveCount(ps) == Len(ActivePlayers(ps))

\* room.players.find / some (p => p.userId === userId)
HasPlayer(ps, u) == \E i \in DOMAIN ps : ps[i].userId = u

IsActiveIn(ps, u) == \E i \in DOMAIN ps : ps[i].userId = u /\ ps[i].isActive

\* index of the first entry of s whose userId is u, 0 when there is none
RECURSIVE FirstIndexFrom(_, _, _)
FirstIndexFrom(s, i, u) ==
    IF i > Len(s) THEN 0
    ELSE IF s[i].userId = u THEN i
    ELSE FirstIndexFrom(s, i + 1, u)

\* activePlayers.findIndex(p => p.userId === u), 1-based, 0 for "not found"
FindIndex(s, u) == FirstIndexFrom(s, 1, u)

Result(op, u, outcome) ==
    [op |-> op, user |-> u, outcome |-> outcome,
     shouldAutoStart |-> "undefined", gameEnded |-> FALSE,
     votingComplete |-> "undefined"]

IdleCall == [pc |-> "idle", kind |-> "none", players |-> << >>, free |-> 0]

IdleCalls == [u \in Users |-> IdleCall]

\* the callers of rotatePlayerTurn that may overlap: a timer and a host
TurnCallers == {1, 2}

IdleTurnCall == [pc |-> "idle", turn |-> NoUser, round |-> 0]

IdleTurnCalls == [c \in TurnCallers |-> IdleTurnCall]

\* socket ids in the order in which the connections are made
SocketIds == 1..MaxSockets

\* the events one handled message has delivered: from is the socket whose
\* message it was, deliveries the pairs of event name and receiving socket
Sent(s, deliveries) == [from |-> s, deliveries |-> deliveries]

NothingSent == Sent(NoSocket, {})

\* votes: {}
NoVotes == << >>

\* no submit_vote message of any user is being handled
IdleVotes ==
    [u \in Users |->
        [pc |-> "idle", questionId |-> 0, turn |-> NoUser, votes |-> NoVotes]]

\* the ids of the friendships collection
DocIds == 1..MaxDocs

NoDoc == [exists |-> FALSE]

NoFriendships == [id \in DocIds |-> NoDoc]

\* no leaveRoom call of any user is between its read and its update
IdleLeaves ==
    [u \in Users |->
        [pc |-> "idle", players |-> << >>, hostId |-> NoUser,
         status |-> "none"]]

\* no run of rotations has been recorded
NoTour == [active |-> << >>, turns |-> << >>]

NoSockets == [s \in SocketIds |-> [user |-> NoUser, state |-> "unused"]]

\* ------------------------------------------------------------ createRoom
HostEntry(h) ==
    [userId |-> h, isHost |-> TRUE, isActive |-> TRUE,
     leftAt |-> "unset", rejoinedAt |-> "unset"]

NewRoom(h, m) ==
    [exists |-> TRUE, hostId |-> h, maxPlayers |-> m,
     players |-> << HostEntry(h) >>,
     status |-> "pending", questions |-> << >>, votes |-> << >>,
     currentPlayerTurn |-> NoUser, answers |-> {}, round |-> 0,
     currentQuestion |-> NoQuestion]

createRoom(h, m) ==
    /\ ~room.exists
    /\ room' = NewRoom(h, m)
    /\ result' = Result("createRoom", h, "ok")
    /\ UNCHANGED <<calls, reported, rotations, live, conn, more>>

\* -------------------------------------------------------------- joinRoom
\* getRoomByCode: the query keeps only rooms whose status is pending/active
FoundByCode(r) == r.exists /\ r.status \in {"pending", "active"}

RoomIsFull_offByOne(r) == ActiveCount(r.players) > r.maxPlayers

RoomIsFull(r) == ActiveCount(r.players) >= r.maxPlayers

Reactivate_asNew(ps, u) ==
    Append(ps, [userId |-> u, isHost |-> FALSE, isActive |-> TRUE,
                leftAt |-> "unset", rejoinedAt |-> "unset"])

Reactivate(ps, u) ==
    [i \in DOMAIN ps |->
        IF ps[i].userId = u
        THEN [ps[i] EXCEPT !.isActive = TRUE, !.rejoinedAt = "stamped",
                           !.leftAt = "null"]
        ELSE ps[i]]

NewPlayer(u) ==
    [userId |-> u, isHost |-> FALSE, isActive |-> TRUE,
     leftAt |-> "unset", rejoinedAt |-> "unset"]

AppendPlayer(ps, u) == Append(ps, NewPlayer(u))

\* isFull && isPending, computed on the room read back after the write
ShouldAutoStart(r) ==
    IF ActiveCount(r.players) >= r.maxPlayers /\ r.status = "pending"
    THEN "true" ELSE "false"

\* what joinRoom decides from the room it read: the outcome and, when it
\* writes, the players array it writes
JoinPlan(r, u) ==
    IF ~FoundByCode(r) THEN [kind |-> "RoomNotFound", players |-> << >>]
    ELSE IF RoomIsFull(r) THEN [kind |-> "RoomFull", players |-> << >>]
    ELSE IF IsActiveIn(r.players, u)
         THEN [kind |-> "already", players |-> r.players]
    ELSE IF HasPlayer(r.players, u)
         THEN [kind |-> "reactivate", players |-> Reactivate(r.players, u)]
    ELSE [kind |-> "append", players |-> AppendPlayer(r.players, u)]

joinRoom(u) ==
    LET plan == JoinPlan(room, u) IN
    /\ room.exists
    /\ UNCHANGED <<calls, reported, rotations, live, conn, more>>
    /\ CASE plan.kind \in {"RoomNotFound", "RoomFull"} ->
              /\ room' = room
              /\ result' = Result("joinRoom", u, plan.kind)
         [] plan.kind = "already" ->
              /\ room' = room
              /\ result' = Result("joinRoom", u, "ok")
         [] plan.kind = "reactivate" ->
              /\ room' = [room EXCEPT !.players = plan.players]
              /\ result' = Result("joinRoom", u, "ok")
         [] plan.kind = "append" ->
              /\ room' = [room EXCEPT !.players = plan.players]
              /\ result' = [Result("joinRoom", u, "ok") EXCEPT
                              !.shouldAutoStart = ShouldAutoStart(room')]

\* ------------------------------------------------------------- leaveRoom
MarkLeft_remove(ps, u) == SelectSeq(ps, LAMBDA p : p.userId # u)

MarkLeft(ps, u) ==
    [i \in DOMAIN ps |->
        IF ps[i].userId = u
        THEN [ps[i] EXCEPT !.isActive = FALSE, !.leftAt = "stamped"]
        ELSE ps[i]]

\* activePlayers.find(p => p.userId !== userId) || activePlayers[0]
NewHost_last(active, u) == active[Len(active)].userId

NewHost(active, u) ==
    LET others == SelectSeq(active, LAMBDA p : p.userId # u) IN
    IF Len(others) > 0 THEN others[1].userId ELSE active[1].userId

TransferHost_keepOld(ps, newHost, u) ==
    [i \in DOMAIN ps |->
        IF ps[i].userId = newHost THEN [ps[i] EXCEPT !.isHost = TRUE]
        ELSE ps[i]]

TransferHost(ps, newHost, u) ==
    [i \in DOMAIN ps |->
        IF ps[i].userId = newHost THEN [ps[i] EXCEPT !.isHost = TRUE]
        ELSE IF ps[i].userId = u THEN [ps[i] EXCEPT !.isHost = FALSE]
        ELSE ps[i]]

NoActiveLeft_early(active) == Len(active) <= 1

NoActiveLeft(active) == Len(active) = 0

LeaveResult(r, u) ==
    LET marked == MarkLeft(r.players, u)
        active == ActivePlayers(marked)
        moveHost == r.hostId = u /\ Len(active) > 0
        newHost == IF moveHost THEN NewHost(active, u) ELSE r.hostId
    IN [r EXCEPT
          !.players = IF moveHost THEN TransferHost(marked, newHost, u)
                      ELSE marked,
          !.hostId = newHost,
          !.status = IF NoActiveLeft(active) THEN "terminated" ELSE @]

leaveRoom(u) ==
    /\ room.exists
    /\ room' = LeaveResult(room, u)
    /\ result' = Result("leaveRoom", u, "ok")
    /\ UNCHANGED <<calls, reported, rotations, live, conn, more>>

\* ------------------------------------------------------------ rejoinRoom
RejoinClosed(r) == r.status \in {"terminated", "completed"}

rejoinRoom(u) ==
    /\ room.exists
    /\ UNCHANGED <<calls, reported, rotations, live, conn, more>>
    /\ IF RejoinClosed(room)
       THEN /\ room' = room
            /\ result' = Result("rejoinRoom", u, "RoomClosed")
       ELSE IF RoomIsFull(room)
       THEN /\ room' = room
            /\ result' = Result("rejoinRoom", u, "RoomFull")
       ELSE /\ room' = [room EXCEPT !.players =
                          IF HasPlayer(@, u) THEN Reactivate(@, u)
                          ELSE AppendPlayer(@, u)]
            /\ result' = Result("rejoinRoom", u, "ok")

\* ------------------------------------------------------------ deleteRoom
IsHostCaller_creator(r, u) == r.players[1].userId = u

\* room.hostId !== userId, negated
IsHostCaller(r, u) == r.hostId = u

deleteRoom(u) ==
    /\ room.exists
    /\ UNCHANGED <<calls, reported, rotations, live, conn, more>>
    /\ IF ~IsHostCaller(room, u)
       THEN /\ room' = room
            /\ result' = Result("deleteRoom", u, "NotHost")
       ELSE /\ room' = [room EXCEPT !.status = "terminated"]
            /\ result' = Result("deleteRoom", u, "ok")

\* ----------------------------------------------------- room membership
Init ==
    /\ room = NoRoom
    /\ result = Result("none", NoUser, "ok")
    /\ calls = IdleCalls
    /\ reported = {}
    /\ rotations = -1
    /\ turnCalls = IdleTurnCalls
    /\ turn_rotation = FALSE
    /\ timeouts = 0
    /\ expired = 0
    /\ sockets = NoSockets
    /\ activeConnections = [u \in Users |-> NoSocket]
    /\ roomConnections = {}
    /\ subscribed = {}
    /\ emitted = NothingSent
    /\ voteCalls = IdleVotes
    /\ vote_update = NoVotes
    /\ rooms = << >>
    /\ friendships = NoFriendships
    /\ leaveCalls = IdleLeaves
    /\ tour = NoTour
    /\ joining = {}

Next ==
    \/ \E h \in Users, m \in MIN_MAX_PLAYERS..MaxCap : createRoom(h, m)
    \/ \E u \in Users : joinRoom(u)
    \/ \E u \in Users : rejoinRoom(u)
    \/ \E u \in Users : leaveRoom(u)
    \/ \E u \in Users : deleteRoom(u)

Spec == Init /\ [][Next]_vars

\* ------------------------------------------------------------- startRoom
Min(a, b) == IF a < b THEN a ELSE b

\* game.questions of the room's game, in catalog order
Catalog == [i \in 1..NumPrompts |-> i]

Rotate(s, k) == [i \in DOMAIN s |-> s[((i - 1 + k) % Len(s)) + 1]]

\* outcomes of [...game.questions].sort(() => 0.5 - Math.random()) that are
\* considered, and the empty list of a game without questions
Shuffles == {<< >>} \cup {Rotate(Catalog, k) : k \in 0..(NumDraws - 1)}

\* shuffled.slice(0, 3).map(q => ({ id: q.id, ... }))
PickQuestions(shuffled) ==
    SubSeq(shuffled, 1, Min(QUESTIONS_PER_TURN, Len(shuffled)))

CanStart_one(active) == Len(active) >= 1

CanStart(active) == Len(active) >= MIN_PLAYERS_TO_START

StartCandidates_all(r) == r.players

\* activePlayers[Math.floor(Math.random() * activePlayers.length)]
StartCandidates(r) == ActivePlayers(r.players)

StartedRoom(r, qs, first) ==
    [r EXCEPT !.status = "active", !.questions = qs,
              !.currentPlayerTurn = first, !.votes = << >>,
              !.answers = {}, !.round = 1]

\* the rooms one successful startRoom call may leave in the store
StartedRooms(r) ==
    {StartedRoom(r, PickQuestions(shuffled), StartCandidates(r)[i].userId) :
        shuffled \in Shuffles, i \in DOMAIN StartCandidates(r)}

\* what one startRoom call does to the room; op and u name the caller
StartBy(op, u) ==
    /\ room.exists
    /\ IF ~CanStart(ActivePlayers(room.players))
       THEN /\ room' = room
            /\ result' = Result(op, u, "InsufficientPlayers")
            /\ UNCHANGED rotations
       ELSE /\ room' \in StartedRooms(room)
            /\ result' = Result(op, u, "ok")
            /\ rotations' = 0

startRoom ==
    /\ StartBy("startRoom", NoUser)
    /\ UNCHANGED <<calls, reported, live, conn, more>>

\* ------------------------------------------------------ rotatePlayerTurn
\* const currentRound = room.round || 1
CurrentRound(r) == IF r.round = 0 THEN 1 ELSE r.round

GameShouldEnd_late(currentRound) == currentRound > MAX_ROUNDS

GameShouldEnd(currentRound) == currentRound >= MAX_ROUNDS

NextIndex_noWrap(active, turn) ==
    LET currentIndex == FindIndex(active, turn) IN
    IF currentIndex >= 1 /\ currentIndex < Len(active)
    THEN currentIndex + 1 ELSE Len(active)

\* currentIndex >= 0 && currentIndex < activePlayers.length - 1
\*   ? currentIndex + 1 : 0          (indices here are 1-based)
NextIndex(active, turn) ==
    LET currentIndex == FindIndex(active, turn) IN
    IF currentIndex >= 1 /\ currentIndex < Len(active)
    THEN currentIndex + 1 ELSE 1

NextRound_skip(currentRound) == currentRound + 2

NextRound(currentRound) == currentRound + 1

EndedRoom_newTurn(r) ==
    [r EXCEPT !.status = "completed", !.votes = << >>, !.answers = {}]

\* update({ status: 'completed', updatedAt }) of a game at its last round
EndedRoom(r) == [r EXCEPT !.status = "completed"]

NextTurn_first(active, turn) == active[1].userId

\* activePlayers[nextIndex].userId
NextTurn(active, turn) == active[NextIndex(active, turn)].userId

\* update({ currentPlayerTurn, questions, round, votes: {}, answers: {} })
TurnedRoom(r, turn, qs, round) ==
    [r EXCEPT !.currentPlayerTurn = turn, !.questions = qs, !.round = round,
              !.votes = << >>, !.answers = {}]

CountRotation(n) ==
    IF n < 0 THEN n ELSE Min(n + 1, MaxRotationsCounted)

\* what one rotatePlayerTurn call does to the room, whoever makes the call
RotationBy(op, u) ==
    LET currentRound == CurrentRound(room)
        active == ActivePlayers(room.players)
    IN
    /\ room.exists
    /\ IF GameShouldEnd(currentRound)
       THEN /\ room' = EndedRoom(room)
            /\ result' = [Result(op, u, "ok") EXCEPT !.gameEnded = TRUE]
            /\ rotations' = CountRotation(rotations)
       ELSE IF Len(active) = 0
       THEN /\ room' = room
            /\ result' = Result(op, u, "NoActivePlayers")
            /\ UNCHANGED rotations
       ELSE \E shuffled \in Shuffles :
              /\ room' = TurnedRoom(room,
                                     NextTurn(active, room.currentPlayerTurn),
                                     PickQuestions(shuffled),
                                     NextRound(currentRound))
              /\ result' = Result(op, u, "ok")
              /\ rotations' = CountRotation(rotations)

Rotation == RotationBy("rotatePlayerTurn", NoUser)

rotatePlayerTurn ==
    /\ Rotation
    /\ UNCHANGED <<calls, reported, live, conn, more>>

\* ------------------------------------- submitVote (request/response path)
\* votes[questionId] with a missing key read as the empty list
VotesFor(votes, q) == IF q \in DOMAIN votes THEN votes[q] ELSE {}

\* an element of votes[q]: this path pushes the bare userId, the live
\* channel pushes an object { userId, username, votedAt }
IdEntry(u) == [form |-> "id", userId |-> u]

RecordEntry(u) == [form |-> "record", userId |-> u]

\* votes[questionId].push(entry)
AddVote(votes, q, e) ==
    [k \in (DOMAIN votes) \cup {q} |->
        IF k = q THEN VotesFor(votes, q) \cup {e} ELSE votes[k]]

IsTurnHolder_never(r, u) == FALSE

\* room.currentPlayerTurn === userId
IsTurnHolder(r, u) == r.currentPlayerTurn = u

submitVote(u, q) ==
    /\ room.exists
    /\ UNCHANGED <<calls, reported, rotations, live, conn, more>>
    /\ IF ~HasPlayer(room.players, u)
       THEN /\ room' = room
            /\ result' = Result("submitVote", u, "NotAPlayer")
       ELSE IF IsTurnHolder(room, u)
       THEN /\ room' = room
            /\ result' = Result("submitVote", u, "InvalidVoter")
       ELSE IF IdEntry(u) \in VotesFor(room.votes, q)
       THEN /\ room' = room
            /\ result' = Result("submitVote", u, "AlreadyVoted")
       ELSE /\ room' = [room EXCEPT !.votes = AddVote(@, q, IdEntry(u))]
            /\ result' = Result("submitVote", u, "ok")

\* ----------------------------------- submitAnswer (request/response path)
NotYourTurn_unlessUnset(r, u) ==
    r.currentPlayerTurn # NoUser /\ r.currentPlayerTurn # u

\* room.currentPlayerTurn !== userId
NotYourTurn(r, u) == r.currentPlayerTurn # u

WithAnswer_nextRound(r, u) ==
    [r EXCEPT !.answers = @ \cup {u}, !.round = @ + 1]

\* answers[userId] = answer, then update({ answers, updatedAt })
WithAnswer(r, u) == [r EXCEPT !.answers = @ \cup {u}]

submitAnswer(u) ==
    /\ room.exists
    /\ UNCHANGED <<calls, reported, rotations, live, conn, more>>
    /\ IF NotYourTurn(room, u)
       THEN /\ room' = room
            /\ result' = Result("submitAnswer", u, "WrongTurn")
       ELSE /\ room' = WithAnswer(room, u)
            /\ result' = Result("submitAnswer", u, "ok")

\* ------------------------------------------- turn and round progression
NextRound10 ==
    \/ createRoom(1, MIN_MAX_PLAYERS)
    \/ \E u \in RoundPlayers : joinRoom(u)
    \/ \E u \in RoundPlayers : leaveRoom(u)
    \/ \E u \in RoundPlayers : deleteRoom(u)
    \/ startRoom
    \/ rotatePlayerTurn

SpecRounds == Init /\ [][NextRound10]_vars

\* ------------------------------------ turns of a game with votes and answers
\* the host stays; the two guests come and go, and one of them votes
NextTurns ==
    \/ createRoom(1, MaxCap)
    \/ \E u \in StartPlayers : joinRoom(u)
    \/ \E u \in Guests : leaveRoom(u)
    \/ startRoom
    \/ rotatePlayerTurn
    \/ \E q \in VoteChoices : submitVote(2, q)
    \/ \E u \in StartPlayers : submitAnswer(u)

SpecTurns == Init /\ [][NextTurns]_vars

\* ----------------------------------------- runs of consecutive rotations
\* activePlayers.map(p => p.userId)
ActiveIds(ps) ==
    [i \in DOMAIN ActivePlayers(ps) |-> ActivePlayers(ps)[i].userId]

\* the last n elements of s
LastN(s, n) == IF Len(s) <= n THEN s ELSE SubSeq(s, Len(s) - n + 1, Len(s))

\* the run after a rotation has taken room r to r2. The run goes on when the
\* rotation found the active players and the turn as the rotation before it
\* left them; it starts anew when the turn-holder it found is active; there
\* is no run after a rotation that ends the game, assigns no turn, or sets
\* out from a turn-holder who is not active. A run keeps its last n turns,
\* n being the number of active players.
TourAfter(t, r, r2) ==
    LET ids == ActiveIds(r.players) IN
    IF GameShouldEnd(CurrentRound(r)) \/ Len(ids) = 0 THEN NoTour
    ELSE IF ~(\E i \in DOMAIN ids : ids[i] = r.currentPlayerTurn) THEN NoTour
    ELSE IF /\ t.active = ids
            /\ t.turns # << >>
            /\ t.turns[Len(t.turns)] = r.currentPlayerTurn
         THEN [active |-> ids,
               turns |-> LastN(Append(t.turns, r2.currentPlayerTurn),
                               Len(ids))]
    ELSE [active |-> ids, turns |-> <<r2.currentPlayerTurn>>]

\* rotatePlayerTurn, with the run of rotations kept up to date
TourRotation ==
    /\ Rotation
    /\ tour' = TourAfter(tour, room, room')
    /\ UNCHANGED <<calls, reported, live, conn, joining>>
    /\ UNCHANGED <<voteCalls, vote_update, rooms, friendships, leaveCalls>>

\* --------------------------------------------- starting a game with votes
NextStart ==
    \/ createRoom(1, MaxCap)
    \/ \E u \in StartPlayers : joinRoom(u)
    \/ \E u \in StartPlayers : leaveRoom(u)
    \/ startRoom
    \/ \E u \in StartPlayers, q \in VoteChoices : submitVote(u, q)
    \/ \E u \in StartPlayers : submitAnswer(u)

SpecStart == Init /\ [][NextStart]_vars

\* ------------------------------------- joinRoom, one store access a step
\* A joinRoom call awaits the store three times: the read by code, the
\* update of players, and the read back.  Other calls run in between.
FreeSlots(r) == r.maxPlayers - ActiveCount(r.players)

\* await getRoomByCode(code), then the checks up to the update being issued
JoinRead(u) ==
    LET plan == JoinPlan(room, u) IN
    /\ room.exists
    /\ calls[u].pc = "idle"
    /\ UNCHANGED <<room, rotations, live, conn, more>>
    /\ CASE plan.kind \in {"RoomNotFound", "RoomFull"} ->
              /\ result' = Result("joinRoom", u, plan.kind)
              /\ UNCHANGED <<calls, reported, live, conn, more>>
         [] plan.kind = "already" ->
              /\ result' = Result("joinRoom", u, "ok")
              /\ reported' = reported \cup {u}
              /\ UNCHANGED calls
         [] plan.kind \in {"reactivate", "append"} ->
              /\ calls' = [calls EXCEPT ![u] =
                    [pc |-> "write", kind |-> plan.kind,
                     players |-> plan.players, free |-> FreeSlots(room)]]
              /\ UNCHANGED <<result, reported>>

\* await db.collection(ROOMS).doc(room.id).update({ players, updatedAt })
JoinWrite(u) ==
    /\ calls[u].pc = "write"
    /\ room' = [room EXCEPT !.players = calls[u].players]
    /\ UNCHANGED <<rotations, live, conn, more>>
    /\ IF calls[u].kind = "reactivate"
       THEN /\ calls' = [calls EXCEPT ![u].pc = "idle"]
            /\ result' = Result("joinRoom", u, "ok")
            /\ reported' = reported \cup {u}
       ELSE /\ calls' = [calls EXCEPT ![u].pc = "readback"]
            /\ UNCHANGED <<result, reported>>

\* await getRoomById(room.id), then the return with shouldAutoStart
JoinReadBack(u) ==
    /\ calls[u].pc = "readback"
    /\ calls' = [calls EXCEPT ![u].pc = "idle"]
    /\ result' = [Result("joinRoom", u, "ok") EXCEPT
                    !.shouldAutoStart = ShouldAutoStart(room)]
    /\ reported' = reported \cup {u}
    /\ UNCHANGED <<room, rotations, live, conn, more>>

\* ------------------------------------ leaveRoom, one store access a step
\* await getRoomById(roomId), then players, hostId and status are worked out
\* on that copy up to the update being issued
LeaveRead(u) ==
    LET left == LeaveResult(room, u) IN
    /\ room.exists
    /\ leaveCalls[u].pc \in {"idle", "done"}
    /\ leaveCalls' = [leaveCalls EXCEPT ![u] =
          [pc |-> "write", players |-> left.players,
           hostId |-> left.hostId, status |-> left.status]]
    /\ UNCHANGED <<room, result, calls, reported, rotations, live, conn>>
    /\ UNCHANGED <<voteCalls, vote_update, rooms, friendships, rest>>

\* await update({ players, hostId, status, updatedAt }), then the return
LeaveWrite(u) ==
    /\ leaveCalls[u].pc = "write"
    /\ room' = [room EXCEPT !.players = leaveCalls[u].players,
                            !.hostId = leaveCalls[u].hostId,
                            !.status = leaveCalls[u].status]
    /\ leaveCalls' = [leaveCalls EXCEPT ![u].pc = "done"]
    /\ result' = Result("leaveRoom", u, "ok")
    /\ UNCHANGED <<calls, reported, rotations, live, conn>>
    /\ UNCHANGED <<voteCalls, vote_update, rooms, friendships, rest>>

\* the host leaves while guests join
NextLeaveConc ==
    \/ createRoom(1, MaxCap)
    \/ \E u \in Guests : JoinRead(u)
    \/ \E u \in Guests : JoinWrite(u)
    \/ \E u \in Guests : JoinReadBack(u)
    \/ LeaveRead(1)
    \/ LeaveWrite(1)

SpecLeaveConc == Init /\ [][NextLeaveConc]_vars

NextConc ==
    \/ \E h \in Users, m \in MIN_MAX_PLAYERS..MaxCap : createRoom(h, m)
    \/ \E u \in Users : JoinRead(u)
    \/ \E u \in Users : JoinWrite(u)
    \/ \E u \in Users : JoinReadBack(u)

SpecConc == Init /\ [][NextConc]_vars

\* ---------------------------------------------- submit_vote (live channel)
\* votes[qId].filter(v => v.userId !== socket.userId): an object pushed by
\* this handler for the user goes, a bare userId has no userId field and stays
WithoutRecords(entries, u) == entries \ {RecordEntry(u)}

\* the votes object after the filter over every key and the push
ChangedVote(votes, q, u) ==
    [k \in (DOMAIN votes) \cup {q} |->
        IF k = q
        THEN WithoutRecords(VotesFor(votes, q), u) \cup {RecordEntry(u)}
        ELSE WithoutRecords(votes[k], u)]

RECURSIVE SumLengths(_, _)
SumLengths(votes, keys) ==
    IF keys = {} THEN 0
    ELSE LET k == CHOOSE x \in keys : TRUE
         IN Cardinality(votes[k]) + SumLengths(votes, keys \ {k})

\* Object.values(votes).reduce((sum, voteArray) => sum + voteArray.length, 0)
TotalVotes(votes) == SumLengths(votes, DOMAIN votes)

\* updatedRoom.players.filter(p => p.userId !== updatedRoom.currentPlayerTurn)
VotingPlayers(r) ==
    SelectSeq(r.players, LAMBDA p : p.userId # r.currentPlayerTurn)

\* totalVotes >= votingPlayers.length
VotingComplete(r, votes) == TotalVotes(votes) >= Len(VotingPlayers(r))

\* the handler without the events it sends; u is socket.userId
handle_submit_vote(u, q) ==
    /\ room.exists
    /\ UNCHANGED <<calls, reported, rotations, live>>
    /\ IF IsTurnHolder(room, u)
       THEN /\ room' = room
            /\ result' = Result("submit_vote", u, "InvalidVoter")
       ELSE /\ room' = [room EXCEPT !.votes = ChangedVote(@, q, u)]
            /\ result' = [Result("submit_vote", u, "ok") EXCEPT
                  !.votingComplete = VotingComplete(room', room'.votes)]

submit_vote(u, q) == handle_submit_vote(u, q) /\ UNCHANGED <<conn, more>>

\* ------------------------------------------- votes cast over both channels
NextBallots ==
    \/ createRoom(1, MIN_MAX_PLAYERS)
    \/ \E u \in RoundPlayers : joinRoom(u)
    \/ \E u \in RoundPlayers : leaveRoom(u)
    \/ startRoom
    \/ \E u \in RoundPlayers, q \in BallotChoices : submitVote(u, q)
    \/ \E u \in RoundPlayers, q \in BallotChoices : submit_vote(u, q)

SpecBallots == Init /\ [][NextBallots]_vars

\* ------------------------------------------ the tally of the live channel
NextTally ==
    \/ createRoom(1, MaxCap)
    \/ \E u \in StartPlayers : joinRoom(u)
    \/ \E u \in Guests : leaveRoom(u)
    \/ startRoom
    \/ \E u \in StartPlayers, q \in VoteChoices : submit_vote(u, q)

SpecTally == Init /\ [][NextTally]_vars

\* -------------------------------------------- submit_answer (live channel)
\* if (global[timeoutKey]) clearTimeout(global[timeoutKey]), then
\* global[timeoutKey] = setTimeout(...): the number of callbacks scheduled
Rescheduled_none(held, n) == n

Rescheduled(held, n) == (IF held THEN n - 1 ELSE n) + 1

handle_submit_answer(u) ==
    /\ room.exists
    /\ turn_rotation \/ timeouts < MaxTimeouts
    /\ UNCHANGED <<calls, reported, rotations, turnCalls, expired>>
    /\ IF NotYourTurn(room, u)
       THEN /\ room' = room
            /\ result' = Result("submit_answer", u, "WrongTurn")
            /\ UNCHANGED <<turn_rotation, timeouts>>
       ELSE /\ room' = WithAnswer(room, u)
            /\ result' = Result("submit_answer", u, "ok")
            /\ timeouts' = Rescheduled(turn_rotation, timeouts)
            /\ turn_rotation' = TRUE

submit_answer(u) == handle_submit_answer(u) /\ UNCHANGED <<conn, more>>

\* the callback of setTimeout starts: delete global[timeoutKey], then the
\* call of rotatePlayerTurn up to its first await
TimerFire ==
    /\ timeouts > 0
    /\ expired < MaxTimeouts
    /\ timeouts' = timeouts - 1
    /\ turn_rotation' = FALSE
    /\ expired' = expired + 1
    /\ result' = Result("turn_rotation", NoUser, "ok")
    /\ UNCHANGED <<room, calls, reported, rotations, turnCalls, conn, more>>

\* catch (error) { delete global[timeoutKey] }
HeldAfterCatch(held) == FALSE

\* rotatePlayerTurn returns to the callback, or throws into its catch
TimerRotate ==
    /\ expired > 0
    /\ expired' = expired - 1
    /\ Rotation
    /\ turn_rotation' = IF result'.outcome = "ok" THEN turn_rotation
                         ELSE HeldAfterCatch(turn_rotation)
    /\ UNCHANGED <<calls, reported, turnCalls, timeouts, conn, more>>

\* ---------------------------------------------- share_answer (live channel)
handle_share_answer(u) ==
    /\ room.exists
    /\ UNCHANGED <<calls, reported, rotations, live>>
    /\ IF NotYourTurn(room, u)
       THEN /\ room' = room
            /\ result' = Result("share_answer", u, "WrongTurn")
       ELSE IF ~HasPlayer(room.players, u)
       THEN /\ room' = room
            /\ result' = Result("share_answer", u, "NotAPlayer")
       ELSE /\ room' = WithAnswer(room, u)
            /\ result' = Result("share_answer", u, "ok")

share_answer(u) == handle_share_answer(u) /\ UNCHANGED <<conn, more>>

\* ------------------------------------ the start route (request/response)
start(u) ==
    /\ room.exists
    /\ UNCHANGED <<calls, reported, live, conn, more>>
    /\ IF ~IsHostCaller(room, u)
       THEN /\ room' = room
            /\ result' = Result("start", u, "NotHost")
            /\ UNCHANGED rotations
       ELSE StartBy("start", u)

\* ------------------------------------ setPlayerTurn (request/response path)
\* room.players.some(p => p.userId === playerId)
PlayerExists(r, playerId) == HasPlayer(r.players, playerId)

\* update({ currentPlayerTurn: playerId, updatedAt })
WithTurn(r, playerId) == [r EXCEPT !.currentPlayerTurn = playerId]

setPlayerTurn(u, playerId) ==
    /\ room.exists
    /\ UNCHANGED <<calls, reported, rotations, live, conn, more>>
    /\ IF ~IsHostCaller(room, u)
       THEN /\ room' = room
            /\ result' = Result("setPlayerTurn", u, "NotHost")
       ELSE IF ~PlayerExists(room, playerId)
       THEN /\ room' = room
            /\ result' = Result("setPlayerTurn", u, "PlayerNotInRoom")
       ELSE /\ room' = WithTurn(room, playerId)
            /\ result' = Result("setPlayerTurn", u, "ok")

\* ------------------------------------------ set_player_turn (live channel)
handle_set_player_turn(u, playerId) ==
    /\ room.exists
    /\ UNCHANGED <<calls, reported, rotations, live>>
    /\ IF ~IsHostCaller(room, u)
       THEN /\ room' = room
            /\ result' = Result("set_player_turn", u, "NotHost")
       ELSE /\ room' = WithTurn(room, playerId)
            /\ result' = Result("set_player_turn", u, "ok")

set_player_turn(u, playerId) ==
    handle_set_player_turn(u, playerId) /\ UNCHANGED <<conn, more>>

\* --------------------------------------------- set_question (live channel)
handle_set_question(u, question) ==
    /\ room.exists
    /\ UNCHANGED <<calls, reported, rotations, live>>
    /\ IF ~IsHostCaller(room, u)
       THEN /\ room' = room
            /\ result' = Result("set_question", u, "NotHost")
       ELSE /\ room' = [room EXCEPT !.currentQuestion = question]
            /\ result' = Result("set_question", u, "ok")

set_question(u, question) ==
    handle_set_question(u, question) /\ UNCHANGED <<conn, more>>

\* ------------------------------------------------ next_turn (live channel)
handle_next_turn(u) ==
    /\ room.exists
    /\ UNCHANGED <<calls, reported, live>>
    /\ IF ~IsHostCaller(room, u)
       THEN /\ room' = room
            /\ result' = Result("next_turn", u, "NotHost")
            /\ UNCHANGED rotations
       ELSE RotationBy("next_turn", u)

next_turn(u) == handle_next_turn(u) /\ UNCHANGED <<conn, more>>

\* ------------------------------------------- the timers of the live channel
NextTimers ==
    \/ createRoom(1, MIN_MAX_PLAYERS)
    \/ joinRoom(2)
    \/ \E u \in RoundPlayers : leaveRoom(u)
    \/ startRoom
    \/ \E u \in RoundPlayers : submit_answer(u)
    \/ TimerFire
    \/ TimerRotate

SpecTimers == Init /\ [][NextTimers]_vars

\* ---------------------------------------- answers over both channels
NextAnswers ==
    \/ createRoom(1, MIN_MAX_PLAYERS)
    \/ joinRoom(2)
    \/ \E u \in RoundPlayers : leaveRoom(u)
    \/ startRoom
    \/ \E u \in RoundPlayers : submitAnswer(u)
    \/ \E u \in RoundPlayers : submit_answer(u)
    \/ \E u \in RoundPlayers : share_answer(u)
    \/ TimerFire
    \/ TimerRotate

\* a scheduled callback runs once its delay has passed, and the store
\* answers every call of rotatePlayerTurn
SpecAnswers ==
    /\ Init /\ [][NextAnswers]_vars
    /\ WF_vars(TimerFire) /\ WF_vars(TimerRotate)

\* ------------------------------ rotatePlayerTurn, one store access a step
\* A rotatePlayerTurn call reads the room, awaits selectNewQuestions, and
\* then issues one update computed from the room it read; other calls run
\* in between.
\* await getRoomById(roomId), then the checks made on the room that was read
TurnRead(c) ==
    LET currentRound == CurrentRound(room)
        active == ActivePlayers(room.players)
    IN
    /\ room.exists
    /\ turnCalls[c].pc = "idle"
    /\ UNCHANGED <<room, calls, reported, rotations, conn, more>>
    /\ UNCHANGED <<turn_rotation, timeouts, expired>>
    /\ IF GameShouldEnd(currentRound)
       THEN /\ turnCalls' = [turnCalls EXCEPT ![c].pc = "end"]
            /\ UNCHANGED result
       ELSE IF Len(active) = 0
       THEN /\ result' = Result("rotatePlayerTurn", NoUser, "NoActivePlayers")
            /\ UNCHANGED turnCalls
       ELSE /\ turnCalls' = [turnCalls EXCEPT ![c] =
                  [pc |-> "write",
                   turn |-> NextTurn(active, room.currentPlayerTurn),
                   round |-> NextRound(currentRound)]]
            /\ UNCHANGED result

\* await db.collection(ROOMS).doc(roomId).update({ ... }), then the return
TurnWrite(c) ==
    /\ turnCalls[c].pc \in {"end", "write"}
    /\ turnCalls' = [turnCalls EXCEPT ![c] = IdleTurnCall]
    /\ rotations' = CountRotation(rotations)
    /\ UNCHANGED <<calls, reported, turn_rotation, timeouts, expired, conn, more>>
    /\ IF turnCalls[c].pc = "end"
       THEN /\ room' = EndedRoom(room)
            /\ result' = [Result("rotatePlayerTurn", NoUser, "ok")
                             EXCEPT !.gameEnded = TRUE]
       ELSE \E shuffled \in Shuffles :
              /\ room' = TurnedRoom(room, turnCalls[c].turn,
                                     PickQuestions(shuffled),
                                     turnCalls[c].round)
              /\ result' = Result("rotatePlayerTurn", NoUser, "ok")

NextTurnsConc ==
    \/ createRoom(1, MIN_MAX_PLAYERS)
    \/ joinRoom(2)
    \/ leaveRoom(1)
    \/ startRoom
    \/ \E c \in TurnCallers : TurnRead(c)
    \/ \E c \in TurnCallers : TurnWrite(c)

SpecTurnsConc == Init /\ [][NextTurnsConc]_vars

\* ------------------------------- the host's next_turn and the rotation timer
NextHostTurn ==
    \/ createRoom(1, MIN_MAX_PLAYERS)
    \/ joinRoom(2)
    \/ startRoom
    \/ \E u \in RoundPlayers : submit_answer(u)
    \/ \E u \in RoundPlayers : next_turn(u)
    \/ TimerFire
    \/ TimerRotate

SpecHostTurn == Init /\ [][NextHostTurn]_vars

\* ------------------------------------------------- the host-only operations
\* the question a host sets (data.question)
HostQuestions == {1}

NextHost ==
    \/ createRoom(1, MIN_MAX_PLAYERS)
    \/ joinRoom(1)
    \/ joinRoom(2)
    \/ \E u \in RoundPlayers : leaveRoom(u)
    \/ \E u \in StartPlayers : deleteRoom(u)
    \/ \E u \in StartPlayers : start(u)
    \/ \E u \in StartPlayers, playerId \in StartPlayers :
          setPlayerTurn(u, playerId)
    \/ \E u \in StartPlayers, playerId \in StartPlayers :
          set_player_turn(u, playerId)
    \/ \E u \in StartPlayers, question \in HostQuestions :
          set_question(u, question)
    \/ \E u \in StartPlayers : next_turn(u)

SpecHost == Init /\ [][NextHost]_vars

\* ------------------------------------ votes in store while the turn is set
NextTurnVotes ==
    \/ createRoom(1, MIN_MAX_PLAYERS)
    \/ joinRoom(2)
    \/ startRoom
    \/ \E u \in RoundPlayers, q \in VoteChoices : submitVote(u, q)
    \/ \E u \in RoundPlayers, q \in VoteChoices : submit_vote(u, q)
    \/ \E u \in RoundPlayers, playerId \in RoundPlayers :
          setPlayerTurn(u, playerId)
    \/ \E u \in RoundPlayers, playerId \in RoundPlayers :
          set_player_turn(u, playerId)
    \/ rotatePlayerTurn

SpecTurnVotes == Init /\ [][NextTurnVotes]_vars

\* ------------------------------------------------------- validateRoomCode
\* what validateRoomCode answers for the room found under the code
ValidateResult(r) ==
    IF ~FoundByCode(r) THEN "RoomNotFound"
    ELSE IF r.status # "pending" /\ r.status # "active"
         THEN "RoomNotAvailable"
    ELSE IF Len(r.players) >= r.maxPlayers THEN "RoomFull"
    ELSE "valid"

\* the call reads the room and writes nothing
validateRoomCode ==
    /\ result' = Result("validateRoomCode", NoUser, ValidateResult(room))
    /\ UNCHANGED <<room, calls, reported, rotations, live, conn, more>>

NextValidate ==
    \/ \E m \in MIN_MAX_PLAYERS..MaxCap : createRoom(1, m)
    \/ \E u \in Users : joinRoom(u)
    \/ \E u \in Users : leaveRoom(u)
    \/ validateRoomCode

SpecValidate == Init /\ [][NextValidate]_vars

\* --------------------------- rotations among joins, leaves and set turns
NextTour ==
    \/ createRoom(1, MaxCap)
    \/ \E u \in StartPlayers : joinRoom(u)
    \/ \E u \in Guests : leaveRoom(u)
    \/ startRoom
    \/ TourRotation
    \/ \E playerId \in Guests : setPlayerTurn(1, playerId)

SpecTour == Init /\ [][NextTour]_vars

\* ------------------------------- live messages from members and non-members
\* a member and a user who never joins
LiveSenders == {1, 3}

NextMembers ==
    \/ createRoom(1, MIN_MAX_PLAYERS)
    \/ joinRoom(2)
    \/ startRoom
    \/ \E u \in LiveSenders, q \in VoteChoices : submit_vote(u, q)
    \/ \E u \in LiveSenders : submit_answer(u)
    \/ \E u \in LiveSenders : share_answer(u)
    \/ \E u \in LiveSenders, question \in HostQuestions :
          set_question(u, question)
    \/ \E u \in LiveSenders, playerId \in LiveSenders :
          set_player_turn(u, playerId)
    \/ \E u \in LiveSenders : next_turn(u)
    \/ TimerFire
    \/ TimerRotate

SpecMembers == Init /\ [][NextMembers]_vars

\* ----------------------------------------------- connections (live channel)
Live(s) == sockets[s].state = "live"

\* socket.userId
SenderOf(s) == sockets[s].user

\* socket.emit(event): delivered to the sending socket only
ToSender(s, event) == {[event |-> event, to |-> s]}

\* io.to(`room:${roomId}`).emit(event): delivered to every subscribed socket
ToRoom(subs, event) == {[event |-> event, to |-> t] : t \in subs}

\* socket.to(`room:${roomId}`).emit(event): every subscribed socket but s
ToOthers(s, subs, event) == ToRoom(subs \ {s}, event)

ErrorReply_room(s) == ToRoom(subscribed \cup {s}, "error")

\* socket.emit('error', { message })
ErrorReply(s) == ToSender(s, "error")

\* what a handler has sent when it returns: its events, or the error of the
\* check that failed or of its catch block
Replied(s, events) ==
    Sent(s, IF result'.outcome = "ok" THEN events ELSE ErrorReply(s))

\* socket.id of a new connection: ids are never used twice
NewSocket == CHOOSE s \in SocketIds :
                 /\ sockets[s].state = "unused"
                 /\ \A t \in SocketIds : t < s => sockets[t].state # "unused"

\* io.on('connection'): activeConnections.set(socket.userId, socket.id)
connection(u) ==
    /\ \E s \in SocketIds : sockets[s].state = "unused"
    /\ sockets' = [sockets EXCEPT ![NewSocket] = [user |-> u, state |-> "live"]]
    /\ activeConnections' = [activeConnections EXCEPT ![u] = NewSocket]
    /\ result' = Result("connection", u, "ok")
    /\ UNCHANGED <<room, calls, reported, rotations, live>>
    /\ UNCHANGED <<roomConnections, subscribed, emitted, more>>

\* activeConnections.delete(socket.userId)
Unregistered(registry, s) == [registry EXCEPT ![SenderOf(s)] = NoSocket]

\* socket.on('disconnect'); the library takes the socket out of its rooms
disconnect(s) ==
    /\ Live(s)
    /\ sockets' = [sockets EXCEPT ![s].state = "closed"]
    /\ activeConnections' = Unregistered(activeConnections, s)
    /\ roomConnections' = roomConnections \ {s}
    /\ subscribed' = subscribed \ {s}
    /\ result' = Result("disconnect", SenderOf(s), "ok")
    /\ UNCHANGED <<room, calls, reported, rotations, live, emitted, more>>

\* currentRoom.players.length >= currentRoom.maxPlayers
IsFull(r) == Len(r.players) >= r.maxPlayers

IsPlayer_active(r, u) == IsActiveIn(r.players, u)

\* room.players.some(p => p.userId === socket.userId)
IsPlayer(r, u) == HasPlayer(r.players, u)

\* the events of a join_room that passed its checks
JoinEvents(s, subs, started) ==
    ToOthers(s, subs, "player_joined")
      \cup (IF started THEN ToRoom(subs, "game_started") ELSE {})
      \cup ToSender(s, "room_state")

\* socket.on('join_room') from the room that getRoomByCode has returned
handle_join_room(s) ==
    LET u == SenderOf(s)
        subs == subscribed \cup {s}
    IN
    /\ room.exists
    /\ UNCHANGED <<calls, reported, live, sockets, activeConnections>>
    /\ IF ~FoundByCode(room)
       THEN /\ room' = room
            /\ result' = Result("join_room", u, "RoomNotFound")
            /\ emitted' = Sent(s, ErrorReply(s))
            /\ UNCHANGED <<rotations, roomConnections, subscribed>>
       ELSE IF ~IsPlayer(room, u)
       THEN /\ room' = room
            /\ result' = Result("join_room", u, "NotMember")
            /\ emitted' = Sent(s, ErrorReply(s))
            /\ UNCHANGED <<rotations, roomConnections, subscribed>>
       ELSE /\ subscribed' = subs
            /\ roomConnections' = roomConnections \cup {s}
            /\ result' = Result("join_room", u, "ok")
            /\ IF IsFull(room) /\ room.status = "pending"
                  /\ CanStart(ActivePlayers(room.players))
               THEN /\ room' \in StartedRooms(room)
                    /\ rotations' = 0
                    /\ emitted' = Sent(s, JoinEvents(s, subs, TRUE))
               ELSE /\ room' = room
                    /\ emitted' = Sent(s, JoinEvents(s, subs, FALSE))
                    /\ UNCHANGED rotations

\* socket.on('join_room'), handled without interruption
join_room(s) == Live(s) /\ handle_join_room(s) /\ UNCHANGED more

\* a join_room message arrives: the handler awaits getRoomByCode
JoinRoomLookup(s) ==
    /\ Live(s)
    /\ room.exists
    /\ s \notin joining
    /\ joining' = joining \cup {s}
    /\ result' = Result("join_room", SenderOf(s), "pending")
    /\ UNCHANGED <<room, calls, reported, rotations, live, conn>>
    /\ UNCHANGED <<voteCalls, vote_update, rooms, friendships, leaveCalls,
                   tour>>

\* the lookup returns and the handler runs on, whatever has become of the
\* socket in the meantime
JoinRoomResume(s) ==
    /\ s \in joining
    /\ joining' = joining \ {s}
    /\ handle_join_room(s)
    /\ UNCHANGED <<voteCalls, vote_update, rooms, friendships, leaveCalls,
                   tour>>

\* socket.on('leave_room')
leave_room(s) ==
    /\ Live(s)
    /\ subscribed' = subscribed \ {s}
    /\ roomConnections' = roomConnections \ {s}
    /\ emitted' = Sent(s, ToOthers(s, subscribed', "player_left"))
    /\ result' = Result("leave_room", SenderOf(s), "ok")
    /\ UNCHANGED <<room, calls, reported, rotations, live>>
    /\ UNCHANGED <<sockets, activeConnections, more>>

\* ----------------------------------- the live messages with what they send
Sockets == <<sockets, activeConnections, roomConnections, subscribed>>

on_submit_answer(s) ==
    /\ Live(s)
    /\ handle_submit_answer(SenderOf(s))
    /\ emitted' = Replied(s, ToRoom(subscribed, "answer_submitted")
                               \cup ToRoom(subscribed, "viewer_countdown_start"))
    /\ UNCHANGED <<Sockets, more>>

\* the prompts with the highest vote count, when some vote is stored
Winners(votes) ==
    {q \in DOMAIN votes :
        /\ Cardinality(votes[q]) > 0
        /\ \A o \in DOMAIN votes : Cardinality(votes[o]) <= Cardinality(votes[q])}

\* votingComplete && winningQuestion, for each prompt the scan may retain
QuestionSelected(r, complete) ==
    IF complete /\ Winners(r.votes) # {}
    THEN {\E i \in DOMAIN r.questions : r.questions[i] = w : w \in Winners(r.votes)}
    ELSE {FALSE}

on_submit_vote(s, q) ==
    /\ Live(s)
    /\ handle_submit_vote(SenderOf(s), q)
    /\ \E selected \in (IF result'.outcome = "ok"
                         THEN QuestionSelected(room', result'.votingComplete)
                         ELSE {FALSE}) :
          emitted' = Replied(s, ToRoom(subscribed, "vote_update")
                \cup (IF selected THEN ToRoom(subscribed, "question_selected")
                      ELSE {}))
    /\ UNCHANGED <<Sockets, more>>

on_share_answer(s) ==
    /\ Live(s)
    /\ handle_share_answer(SenderOf(s))
    /\ emitted' = Replied(s, ToRoom(subscribed, "answer_shared"))
    /\ UNCHANGED <<Sockets, more>>

on_set_question(s, question) ==
    /\ Live(s)
    /\ handle_set_question(SenderOf(s), question)
    /\ emitted' = Replied(s, ToRoom(subscribed, "question_set"))
    /\ UNCHANGED <<Sockets, more>>

on_set_player_turn(s, playerId) ==
    /\ Live(s)
    /\ handle_set_player_turn(SenderOf(s), playerId)
    /\ emitted' = Replied(s, ToRoom(subscribed, "player_turn_changed"))
    /\ UNCHANGED <<Sockets, more>>

\* game_ended, or turn_rotated followed by player_turn_changed
RotationEvents(ended) ==
    IF ended THEN ToRoom(subscribed, "game_ended")
    ELSE ToRoom(subscribed, "turn_rotated")
           \cup ToRoom(subscribed, "player_turn_changed")

on_next_turn(s) ==
    /\ Live(s)
    /\ handle_next_turn(SenderOf(s))
    /\ emitted' = Replied(s, RotationEvents(result'.gameEnded))
    /\ UNCHANGED <<Sockets, more>>

\* the users who open connections: a member, a guest, and user 3
NextConn ==
    \/ createRoom(1, MIN_MAX_PLAYERS)
    \/ joinRoom(2)
    \/ leaveRoom(2)
    \/ \E u \in StartPlayers : connection(u)
    \/ \E s \in SocketIds : disconnect(s)
    \/ \E s \in SocketIds : join_room(s)
    \/ \E s \in SocketIds : leave_room(s)

SpecSockets == Init /\ [][NextConn]_vars

\* connections that close while their join_room awaits the room lookup
NextJoining ==
    \/ createRoom(1, MIN_MAX_PLAYERS)
    \/ joinRoom(2)
    \/ \E u \in StartPlayers : connection(u)
    \/ \E s \in SocketIds : disconnect(s)
    \/ \E s \in SocketIds : JoinRoomLookup(s)
    \/ \E s \in SocketIds : JoinRoomResume(s)
    \/ \E s \in SocketIds : leave_room(s)

SpecJoining == Init /\ [][NextJoining]_vars

\* the messages of two users, a member and user 3, with the events they
\* send; a timer that submit_answer starts stays pending here, its callback
\* is followed in SpecTimers and SpecAnswers
\* the player a host names in set_player_turn
TurnTargets == {1}

NextEvents ==
    \/ createRoom(1, MIN_MAX_PLAYERS)
    \/ \E u \in LiveSenders : connection(u)
    \/ \E s \in SocketIds : join_room(s)
    \/ \E s \in SocketIds : leave_room(s)
    \/ \E s \in SocketIds : on_submit_answer(s)
    \/ \E s \in SocketIds, q \in VoteChoices : on_submit_vote(s, q)
    \/ \E s \in SocketIds : on_share_answer(s)
    \/ \E s \in SocketIds, question \in HostQuestions :
          on_set_question(s, question)
    \/ \E s \in SocketIds, playerId \in TurnTargets :
          on_set_player_turn(s, playerId)
    \/ \E s \in SocketIds : on_next_turn(s)

SpecEvents == Init /\ [][NextEvents]_vars

\* ------------------------ submit_vote followed through its store accesses
\* const room = await roomService.getRoomById(roomId): the handler keeps the
\* turn-holder and the votes of the document it read; u is socket.userId
VoteRead(u, q) ==
    /\ room.exists
    /\ voteCalls[u].pc \in {"idle", "done"}
    /\ voteCalls' = [voteCalls EXCEPT ![u] =
          [pc |-> "read", questionId |-> q,
           turn |-> room.currentPlayerTurn, votes |-> room.votes]]
    /\ UNCHANGED <<room, result, calls, reported, rotations, live, conn>>
    /\ UNCHANGED <<vote_update, rooms, friendships, leaveCalls, rest>>

\* the turn check on the room that was read, then the votes object built
\* from it and written with update({ votes })
VoteWrite(u) ==
    LET call == voteCalls[u]
        votes == ChangedVote(call.votes, call.questionId, u)
    IN
    /\ call.pc = "read"
    /\ UNCHANGED <<calls, reported, rotations, live, conn, vote_update>>
    /\ UNCHANGED <<rooms, friendships, leaveCalls, rest>>
    /\ IF call.turn = u
       THEN /\ voteCalls' = [voteCalls EXCEPT ![u].pc = "idle"]
            /\ result' = Result("submit_vote", u, "InvalidVoter")
            /\ room' = room
       ELSE /\ voteCalls' = [voteCalls EXCEPT ![u].pc = "written",
                                              ![u].votes = votes]
            /\ room' = [room EXCEPT !.votes = votes]
            /\ UNCHANGED result

\* the room is read back for the tally, then vote_update is sent to the
\* room with the votes object of this handler
VoteEmit(u) ==
    LET call == voteCalls[u] IN
    /\ call.pc = "written"
    /\ voteCalls' = [voteCalls EXCEPT ![u].pc = "done"]
    /\ vote_update' = call.votes
    /\ result' = [Result("submit_vote", u, "ok") EXCEPT
                    !.votingComplete = VotingComplete(room, call.votes)]
    /\ UNCHANGED <<room, calls, reported, rotations, live, conn>>
    /\ UNCHANGED <<rooms, friendships, leaveCalls, rest>>

\* a game of three in which the players vote while other votes are handled
NextVotesConc ==
    \/ createRoom(1, Cardinality(StartPlayers))
    \/ \E u \in Guests : joinRoom(u)
    \/ startRoom
    \/ \E u \in Guests, q \in VoteChoices : VoteRead(u, q)
    \/ \E u \in Guests : VoteWrite(u)
    \/ \E u \in Guests : VoteEmit(u)

SpecVotesConc == Init /\ [][NextVotesConc]_vars

\* ------------------------------------------ the codes of the rooms created
\* where('code', '==', code).where('status', '==', 'active').limit(1)
roomCodeExists(docs, code) ==
    \E i \in DOMAIN docs : docs[i].code = code /\ docs[i].status = "active"

\* createRoom: code is the value of generateRoomCode with which the loop
\* while (await roomCodeExists(code)) ends; the document is stored pending
createRoomCode(code) ==
    /\ Len(rooms) < MaxRooms
    /\ ~roomCodeExists(rooms, code)
    /\ rooms' = Append(rooms, [code |-> code, status |-> "pending"])
    /\ UNCHANGED <<room, result, calls, reported, rotations, live, conn>>
    /\ UNCHANGED <<voteCalls, vote_update, friendships, leaveCalls, rest>>

\* the status written by startRoom (active), by rotatePlayerTurn at the last
\* round (completed) and by deleteRoom or the last leaveRoom (terminated)
StatusAfter(status) ==
    CASE status = "pending" -> {"active", "terminated"}
      [] status = "active" -> {"active", "completed", "terminated"}
      [] OTHER -> {"active", "terminated"}

updateRoomStatus(i) ==
    /\ i \in DOMAIN rooms
    /\ \E status \in StatusAfter(rooms[i].status) :
          rooms' = [rooms EXCEPT ![i].status = status]
    /\ UNCHANGED <<room, result, calls, reported, rotations, live, conn>>
    /\ UNCHANGED <<voteCalls, vote_update, friendships, leaveCalls, rest>>

NextCodes ==
    \/ \E code \in Codes : createRoomCode(code)
    \/ \E i \in 1..MaxRooms : updateRoomStatus(i)

SpecCodes == Init /\ [][NextCodes]_vars

\* ------------------------------------------------------------ friendships
\* where('users', 'array-contains', fromUserId), then
\* existing.docs.some(doc => doc.data().users.includes(toUserId))
friendshipExists_sameOrder(docs, fromUserId, toUserId) ==
    \E id \in DocIds :
        docs[id].exists /\ docs[id].users = <<fromUserId, toUserId>>

friendshipExists(docs, fromUserId, toUserId) ==
    \E id \in DocIds :
        /\ docs[id].exists
        /\ \E i \in 1..2 : docs[id].users[i] = fromUserId
        /\ \E i \in 1..2 : docs[id].users[i] = toUserId

\* the id that add() gives the new document: one that is not in use
FreeDocId == CHOOSE id \in DocIds :
                 /\ ~friendships[id].exists
                 /\ \A other \in DocIds : other < id => friendships[other].exists

Others == <<room, calls, reported, rotations, live, conn,
            voteCalls, vote_update, rooms, leaveCalls, rest>>

sendFriendRequest(fromUserId, toUserId) ==
    /\ \E id \in DocIds : ~friendships[id].exists
    /\ UNCHANGED Others
    /\ IF friendshipExists(friendships, fromUserId, toUserId)
       THEN /\ result' = Result("sendFriendRequest", fromUserId,
                                "FriendshipExists")
            /\ UNCHANGED friendships
       ELSE /\ friendships' = [friendships EXCEPT ![FreeDocId] =
                  [exists |-> TRUE, users |-> <<fromUserId, toUserId>>,
                   status |-> "pending", requestedBy |-> fromUserId]]
            /\ result' = Result("sendFriendRequest", fromUserId, "ok")

\* friendship.users.includes(userId)
IsParty(doc, userId) == \E i \in 1..2 : doc.users[i] = userId

acceptFriendRequest(friendshipId, userId) ==
    LET doc == friendships[friendshipId] IN
    /\ UNCHANGED Others
    /\ IF ~doc.exists
       THEN /\ result' = Result("acceptFriendRequest", userId, "NotFound")
            /\ UNCHANGED friendships
       ELSE IF ~IsParty(doc, userId)
       THEN /\ result' = Result("acceptFriendRequest", userId, "Unauthorized")
            /\ UNCHANGED friendships
       ELSE IF doc.status # "pending"
       THEN /\ result' = Result("acceptFriendRequest", userId, "Processed")
            /\ UNCHANGED friendships
       ELSE /\ friendships' =
                  [friendships EXCEPT ![friendshipId].status = "accepted"]
            /\ result' = Result("acceptFriendRequest", userId, "ok")

removeFriend(friendshipId, userId) ==
    LET doc == friendships[friendshipId] IN
    /\ UNCHANGED Others
    /\ IF ~doc.exists
       THEN /\ result' = Result("removeFriend", userId, "NotFound")
            /\ UNCHANGED friendships
       ELSE IF ~IsParty(doc, userId)
       THEN /\ result' = Result("removeFriend", userId, "Unauthorized")
            /\ UNCHANGED friendships
       ELSE /\ friendships' = [friendships EXCEPT ![friendshipId] = NoDoc]
            /\ result' = Result("removeFriend", userId, "ok")

NextFriends ==
    \/ \E fromUserId, toUserId \in StartPlayers :
          sendFriendRequest(fromUserId, toUserId)
    \/ \E friendshipId \in DocIds, userId \in StartPlayers :
          acceptFriendRequest(friendshipId, userId)
    \/ \E friendshipId \in DocIds, userId \in StartPlayers :
          removeFriend(friendshipId, userId)

SpecFriends == Init /\ [][NextFriends]_vars

\* ================================================================ claims

\* the step just taken was the operation op called by user u
Ran(op, u) == result'.op = op /\ result'.user = u /\ room.exists

\* the active player with the lowest join-order index, u excluded
LowestActiveOther(ps, u) ==
    ps[CHOOSE i \in DOMAIN ps :
          /\ ps[i].isActive /\ ps[i].userId # u
          /\ \A j \in 1..(i - 1) : ~(ps[j].isActive /\ ps[j].userId # u)].userId

OthersActive(ps, u) == \E i \in DOMAIN ps : ps[i].isActive /\ ps[i].userId # u

HostFlags(ps) == {i \in DOMAIN ps : ps[i].isHost}

\* C1: the number of players with isActive true never exceeds maxPlayers,
\* whatever sequence of createRoom, joinRoom, rejoinRoom and leaveRoom ran.
C1_ActiveWithinCapacity ==
    room.exists => ActiveCount(room.players) <= room.maxPlayers

\* a join has just filled the room, and a later one is turned away
C1_Witness ==
    /\ room.exists
    /\ ActiveCount(room.players) = room.maxPlayers
    /\ Len(room.players) > room.maxPlayers
    /\ result.op \in {"joinRoom", "rejoinRoom"}
    /\ result.outcome = "RoomFull"

\* C3: the userIds in players never shrink and keep their relative order;
\* leaveRoom keeps every entry and leaves the leaver's entry inactive.
C3_PlayersAppendOnly ==
    [][room.exists =>
        /\ Len(room'.players) >= Len(room.players)
        /\ \A i \in DOMAIN room.players :
              room'.players[i].userId = room.players[i].userId
        /\ \A u \in Users : Ran("leaveRoom", u) =>
              /\ Len(room'.players) = Len(room.players)
              /\ ~IsActiveIn(room'.players, u)]_vars

\* a member has left and is still listed, with others around it
C3_Witness ==
    /\ room.exists
    /\ result.op = "leaveRoom"
    /\ Len(room.players) >= 2
    /\ HasPlayer(room.players, result.user)
    /\ ~IsActiveIn(room.players, result.user)

\* C4: while the room is not terminated and has an active player, exactly
\* one players entry has isHost true and hostId is that entry's userId.
C4_SingleHost ==
    (room.exists /\ room.status # "terminated"
                 /\ ActiveCount(room.players) >= 1) =>
        /\ Cardinality(HostFlags(room.players)) = 1
        /\ \A i \in HostFlags(room.players) :
              room.players[i].userId = room.hostId

\* the host role has moved away from the creator, who has come back
C4_Witness ==
    /\ room.exists
    /\ room.status # "terminated"
    /\ room.hostId # room.players[1].userId
    /\ room.players[1].isActive

\* C5: when the host leaves while another player is active, hostId and
\* isHost move to the remaining active player with the lowest join-order
\* index, the leaver's isHost becomes false and status does not change.
C5_HostTransfer ==
    [][\A u \in Users :
        (Ran("leaveRoom", u) /\ room.hostId = u
            /\ OthersActive(room.players, u)) =>
          LET p == LowestActiveOther(room.players, u) IN
          /\ room'.hostId = p
          /\ \A i \in DOMAIN room'.players :
                /\ room'.players[i].userId = p => room'.players[i].isHost
                /\ room'.players[i].userId = u => ~room'.players[i].isHost
          /\ room'.status = room.status]_vars

\* the host has left two active players behind: the earlier joiner is host
C5_Witness ==
    /\ room.exists
    /\ result.op = "leaveRoom"
    /\ room.hostId # result.user
    /\ room.players[1].userId = result.user
    /\ ~room.players[1].isActive
    /\ ActiveCount(room.players) >= 2
    /\ room.status # "terminated"

\* C6: leaveRoom by the last active player terminates the room and keeps
\* the leaver's entry, inactive; with another active player remaining,
\* leaveRoom never sets status to terminated.
C6_LastLeaverTerminates ==
    [][\A u \in Users : Ran("leaveRoom", u) =>
        /\ (IsActiveIn(room.players, u) /\ ~OthersActive(room.players, u)) =>
              /\ room'.status = "terminated"
              /\ HasPlayer(room'.players, u)
              /\ ~IsActiveIn(room'.players, u)
        /\ OthersActive(room.players, u) => room'.status = room.status]_vars

\* the last of several members has left and the room is terminated
C6_Witness ==
    /\ room.exists
    /\ result.op = "leaveRoom"
    /\ room.status = "terminated"
    /\ Len(room.players) >= 2
    /\ ActiveCount(room.players) = 0
    /\ HasPlayer(room.players, result.user)

\* C2: with joinRoom calls of different new users interleaved on a room
\* that had exactly one free slot, the stored room never has more active
\* players than maxPlayers and keeps the entry of every join that
\* reported success.
C2_ConcurrentJoinsKeepEntries ==
    room.exists =>
        /\ ActiveCount(room.players) <= room.maxPlayers
        /\ \A u \in reported :
              (calls[u].kind = "append" /\ calls[u].free = 1) =>
                  HasPlayer(room.players, u)

AllowedStatusEdges ==
    {<<"pending", "active">>, <<"active", "completed">>,
     <<"pending", "terminated">>, <<"active", "terminated">>}

\* C7: status moves only along pending->active, active->completed,
\* pending->terminated and active->terminated, so completed and terminated
\* are final, under startRoom, rotatePlayerTurn, leaveRoom and deleteRoom.
C7_StatusMachine ==
    [][room.exists =>
        \/ room'.status = room.status
        \/ <<room.status, room'.status>> \in AllowedStatusEdges]_vars

NoDuplicates(s) == \A i, j \in DOMAIN s : i # j => s[i] # s[j]

StartSucceeded == result.op = "startRoom" /\ result.outcome = "ok"

\* C8: right after a successful startRoom the room is active in round 1
\* with no votes and no answers, at most 3 pairwise distinct prompts, and a
\* currentPlayerTurn that is the userId of an active player.
C8_StartPostcondition ==
    StartSucceeded =>
        /\ room.status = "active"
        /\ room.round = 1
        /\ room.votes = << >>
        /\ room.answers = {}
        /\ Len(room.questions) <= 3
        /\ NoDuplicates(room.questions)
        /\ IsActiveIn(room.players, room.currentPlayerTurn)

\* a game started with three prompts while a former member is inactive
C8_Witness ==
    /\ StartSucceeded
    /\ Len(room.questions) = 3
    /\ ActiveCount(room.players) < Len(room.players)

\* C9: startRoom on a room with fewer than 2 active players fails with the
\* insufficient-players error and leaves the stored room as it was.
C9_StartNeedsTwoPlayers ==
    [][(room.exists /\ result'.op = "startRoom"
                    /\ ActiveCount(room.players) < 2) =>
        /\ result'.outcome = "InsufficientPlayers"
        /\ room'.status = room.status
        /\ room'.round = room.round
        /\ room'.questions = room.questions
        /\ room'.currentPlayerTurn = room.currentPlayerTurn
        /\ room'.votes = room.votes
        /\ room'.answers = room.answers]_vars

\* a running game with votes cast, down to one player, refused a restart
C9_Witness ==
    /\ result.op = "startRoom"
    /\ result.outcome = "InsufficientPlayers"
    /\ room.status = "active"
    /\ room.votes # << >>
    /\ ActiveCount(room.players) = 1

Rotated == room.exists /\ result'.op = "rotatePlayerTurn" /\ room.round >= 1

\* gameEnded is reported exactly from round 10 on, and since the last
\* startRoom the tenth rotation that returned is the first to report it
EndsAtTenthRotation ==
    /\ result'.gameEnded <=> room.round >= MAX_ROUNDS
    /\ (rotations >= 0 /\ result'.gameEnded) => rotations' >= MAX_ROUNDS
    /\ (rotations = MAX_ROUNDS - 1 /\ rotations' = MAX_ROUNDS) =>
          result'.gameEnded

\* C10 as stated: every rotatePlayerTurn call whose pre-rotation round is
\* below 10 increases round by exactly 1 and does not report gameEnded;
\* gameEnded is reported exactly when the pre-rotation round is 10 or
\* more, the tenth rotation after startRoom being the first to report it.
C10_EveryCallAdvancesRound ==
    [][Rotated =>
        /\ room.round < MAX_ROUNDS =>
              /\ room'.round = room.round + 1
              /\ ~result'.gameEnded
        /\ EndsAtTenthRotation]_vars

\* C10 amended: a rotatePlayerTurn call whose pre-rotation round is below
\* 10 increases round by exactly 1 when the room has an active player, and
\* fails with no change when it has none; it never reports gameEnded then.
\* gameEnded is reported exactly when the pre-rotation round is 10 or more,
\* the tenth returning rotation after startRoom being the first to do so.
C10_RotationAdvancesRound ==
    [][Rotated =>
        /\ (room.round < MAX_ROUNDS /\ ActiveCount(room.players) >= 1) =>
              /\ room'.round = room.round + 1
              /\ result'.outcome = "ok"
              /\ ~result'.gameEnded
        /\ (room.round < MAX_ROUNDS /\ ActiveCount(room.players) = 0) =>
              /\ room' = room
              /\ result'.outcome = "NoActivePlayers"
              /\ ~result'.gameEnded
        /\ EndsAtTenthRotation]_vars

\* the tenth rotation after startRoom has ended the game
C10_Witness ==
    /\ result.op = "rotatePlayerTurn"
    /\ result.gameEnded
    /\ rotations = MAX_ROUNDS
    /\ room.round = MAX_ROUNDS
    /\ room.status = "completed"

\* C11: a rotatePlayerTurn call on a room whose round is 10 or more sets the
\* status to completed and leaves currentPlayerTurn, questions, round, votes
\* and answers as they were.
C11_LastRoundOnlyCompletes ==
    [][(room.exists /\ result'.op = "rotatePlayerTurn"
            /\ room.round >= MAX_ROUNDS)
        => /\ room'.status = "completed"
           /\ room'.currentPlayerTurn = room.currentPlayerTurn
           /\ room'.questions = room.questions
           /\ room'.round = room.round
           /\ room'.votes = room.votes
           /\ room'.answers = room.answers]_vars

\* a game ended by a rotation at round 10 with a vote and an answer in store
C11_Witness ==
    /\ room.exists
    /\ result.op = "rotatePlayerTurn" /\ result.gameEnded
    /\ room.status = "completed" /\ room.round = MAX_ROUNDS
    /\ room.votes # << >> /\ room.answers # {}
    /\ room.currentPlayerTurn # NoUser /\ room.questions # << >>

\* the lowest index of a non-empty set of indices
Lowest(S) == CHOOSE i \in S : \A j \in S : i <= j

\* the active player that follows u in join order; the first active player
\* when no active player follows u or u is not an active player
ActiveAfter(ps, u) ==
    LET act == {i \in DOMAIN ps : ps[i].isActive}
        at == {i \in act : ps[i].userId = u}
        later == {i \in act : \E j \in at : i > j}
    IN IF later # {} THEN ps[Lowest(later)].userId
       ELSE ps[Lowest(act)].userId

\* the step just taken was a rotatePlayerTurn call that moved the turn
TurnMoved ==
    /\ room.exists
    /\ result'.op = "rotatePlayerTurn" /\ result'.outcome = "ok"
    /\ ~result'.gameEnded

\* C13: a rotatePlayerTurn call that does not end the game gives the turn to
\* the active player following the turn-holder in join order, wrapping to
\* the first active player after the last, and to the first active player
\* when the turn-holder is unset or not active; it clears votes and answers.
C13_NextActiveInJoinOrder ==
    [][TurnMoved
        => /\ room'.currentPlayerTurn =
                  ActiveAfter(room.players, room.currentPlayerTurn)
           /\ room'.votes = << >>
           /\ room'.answers = {}]_vars

\* a rotation has passed the turn to the third player of a room whose
\* second player has left
C13_Witness ==
    /\ room.exists
    /\ result.op = "rotatePlayerTurn" /\ result.outcome = "ok"
    /\ ~result.gameEnded
    /\ Len(room.players) = 3
    /\ ~room.players[2].isActive
    /\ room.players[3].isActive
    /\ room.currentPlayerTurn = room.players[3].userId
    /\ room.round > 2

\* C12: in every reachable state, reached by overlapping rotatePlayerTurn
\* calls and by rotations before startRoom as well, round is unset or an
\* integer from 1 to 10.
C12_RoundWithinTen ==
    room.exists => room.round \in 0..MAX_ROUNDS

\* round is 10 while an overlapping call is about to write the 10 it computed
\* from an earlier read, after a first rotation made before the game started
C12_Witness ==
    /\ room.exists
    /\ room.round = MAX_ROUNDS
    /\ \E c \in TurnCallers :
          turnCalls[c].pc = "write" /\ turnCalls[c].round = MAX_ROUNDS
    /\ room.status = "pending"

\* the prompt ids under which votes holds a vote by user u, in either form
VotedPrompts(votes, u) ==
    {q \in DOMAIN votes : \E e \in votes[q] : e.userId = u}

\* C14: after any mix of submitVote calls of the request/response path and
\* submit_vote events of the live channel, no user has a vote under more
\* than one prompt id.
C14_OneVotePerUser ==
    room.exists =>
        \A u \in Users : Cardinality(VotedPrompts(room.votes, u)) <= 1

\* the step just taken was a vote by the user whose turn it is
TurnHolderVoted ==
    /\ room.exists
    /\ result'.op \in {"submitVote", "submit_vote"}
    /\ room.currentPlayerTurn # NoUser
    /\ result'.user = room.currentPlayerTurn

\* C15: a vote by the user named by currentPlayerTurn is rejected on the
\* request/response path and on the live channel, and the stored votes stay
\* as they were.
C15_TurnHolderCannotVote ==
    [][TurnHolderVoted
        => /\ result'.outcome # "ok"
           /\ room'.votes = room.votes]_vars

\* the live channel has refused the turn-holder while votes cast over both
\* channels are in store
C15_Witness ==
    /\ room.exists
    /\ result.op = "submit_vote" /\ result.outcome = "InvalidVoter"
    /\ result.user = room.currentPlayerTurn
    /\ \E q \in DOMAIN room.votes : \E e \in room.votes[q] : e.form = "id"
    /\ \E q \in DOMAIN room.votes : \E e \in room.votes[q] : e.form = "record"

\* the active players other than the turn-holder
ActiveOthers(r) ==
    SelectSeq(r.players,
              LAMBDA p : p.isActive /\ p.userId # r.currentPlayerTurn)

\* C16: after a vote on the live channel, voting is reported complete
\* exactly when the total number of votes is at least the number of active
\* players other than the turn-holder; players who have left do not count.
C16_CompleteWhenActiveOthersVoted ==
    [][(room.exists /\ result'.op = "submit_vote" /\ result'.outcome = "ok")
        => (result'.votingComplete =
               (TotalVotes(room'.votes) >= Len(ActiveOthers(room'))))
      ]_vars

\* the step just taken was an answer by user who does not hold the turn
OutOfTurnAnswer ==
    /\ room.exists
    /\ result'.op \in {"submitAnswer", "submit_answer"}
    /\ result'.user # room.currentPlayerTurn

\* C17: an answer by a user other than the one named by currentPlayerTurn
\* is rejected with the wrong-turn error on the request/response path and
\* on the live channel, and answers stay as they were; this includes every
\* answer sent while currentPlayerTurn is unset.
C17_OnlyTurnHolderAnswers ==
    [][OutOfTurnAnswer
        => /\ result'.outcome = "WrongTurn"
           /\ room'.answers = room.answers]_vars

\* the live channel has refused an answer sent before any turn was set
C17_Witness ==
    /\ room.exists
    /\ result.op = "submit_answer" /\ result.outcome = "WrongTurn"
    /\ room.currentPlayerTurn = NoUser
    /\ room.answers = {}

\* the step just taken recorded an answer sent by submitAnswer or submit_answer
AnswerAccepted ==
    /\ room.exists
    /\ result'.op \in {"submitAnswer", "submit_answer"}
    /\ result'.outcome = "ok"

\* C18: recording an accepted answer changes answers only: players, status,
\* currentPlayerTurn, questions, votes and round stay as they were.
C18_AnswerChangesOnlyAnswers ==
    [][AnswerAccepted
        => /\ result'.user \in room'.answers
           /\ room' = [room EXCEPT !.answers = room'.answers]]_vars

\* an answer has just been recorded over the request/response path in a
\* started game past its first round
C18_Witness ==
    /\ room.exists
    /\ result.op = "submitAnswer" /\ result.outcome = "ok"
    /\ room.answers = {room.currentPlayerTurn}
    /\ room.status = "active" /\ room.round > 1
    /\ room.questions # << >>

\* C19: at every moment at most one rotation timer is pending for the room,
\* so that answers accepted before the timer runs lead to one timer-driven
\* rotatePlayerTurn call.
C19_OneTimerPerRoom == timeouts <= 1

\* an answer has been recorded by one of the three entry points
AnswerRecorded ==
    /\ result.op \in {"submit_answer", "share_answer", "submitAnswer"}
    /\ result.outcome = "ok"

\* the callback of a rotation timer has called rotatePlayerTurn
TimerRotationInvoked == result.op = "turn_rotation"

\* C20 as stated: whenever an answer is recorded, by submit_answer, by
\* share_answer or by submitAnswer, a rotatePlayerTurn call eventually
\* follows (a later answer takes the requirement over).
C20_EveryAnswerRotates == AnswerRecorded ~> TimerRotationInvoked

\* C20 amended: whenever an answer is recorded by submit_answer of the live
\* channel, a timer-driven rotatePlayerTurn call eventually follows.
C20_LiveAnswerRotates ==
    (result.op = "submit_answer" /\ result.outcome = "ok")
        ~> TimerRotationInvoked

\* an answer recorded by submit_answer with its rotation timer pending
C20_Witness ==
    /\ room.exists
    /\ result.op = "submit_answer" /\ result.outcome = "ok"
    /\ turn_rotation /\ timeouts = 1
    /\ result.user \in room.answers

\* the step just taken was a joinRoom call by a user active in a room that
\* getRoomByCode finds
ActiveMemberJoined ==
    /\ room.exists
    /\ result'.op = "joinRoom"
    /\ FoundByCode(room)
    /\ IsActiveIn(room.players, result'.user)

\* C22: joinRoom by a user who is already active in the room succeeds and
\* leaves the room as it was, also when the active-player count already
\* equals maxPlayers.
C22_JoinByActiveMemberIsNoOp ==
    [][ActiveMemberJoined
        => /\ result'.outcome = "ok"
           /\ room' = room]_vars

\* the step just taken was a joinRoom call that appended or reactivated
JoinedAnew ==
    /\ room.exists
    /\ result'.op = "joinRoom" /\ result'.outcome = "ok"
    /\ ~IsActiveIn(room.players, result'.user)

\* C23: every successful joinRoom that appends a player or reactivates one
\* returns shouldAutoStart true exactly when, after the join, the number of
\* active players equals maxPlayers and the status is pending.
C23_AutoStartIffFullAndPending ==
    [][JoinedAnew
        => ((result'.shouldAutoStart = "true")
              <=> (/\ ActiveCount(room'.players) = room'.maxPlayers
                   /\ room'.status = "pending"))]_vars

NoDuplicateUsers(ps) ==
    \A i, j \in DOMAIN ps : i # j => ps[i].userId # ps[j].userId

\* the step just taken was a successful joinRoom or rejoinRoom by a user
\* whose entry is inactive
Returned ==
    /\ room.exists
    /\ result'.op \in {"joinRoom", "rejoinRoom"} /\ result'.outcome = "ok"
    /\ HasPlayer(room.players, result'.user)
    /\ ~IsActiveIn(room.players, result'.user)

\* the entry of u is active again with leftAt cleared and rejoinedAt
\* stamped, at its old position and with its old isHost; the rest is as before
ReactivatedInPlace(before, after, u) ==
    /\ Len(after) = Len(before)
    /\ \A i \in DOMAIN before :
          IF before[i].userId = u
          THEN /\ after[i].userId = u
               /\ after[i].isActive
               /\ after[i].leftAt = "null"
               /\ after[i].rejoinedAt = "stamped"
               /\ after[i].isHost = before[i].isHost
          ELSE after[i] = before[i]

\* C24: with createRoom, joinRoom, rejoinRoom and leaveRoom each run
\* atomically, every userId has at most one players entry, and a returning
\* user's entry is reactivated in place instead of a second one being added.
C24_OneEntryPerUser ==
    [][/\ room'.exists => NoDuplicateUsers(room'.players)
       /\ Returned =>
             ReactivatedInPlace(room.players, room'.players, result'.user)
      ]_vars

\* the creator of the room, who left and lost the host role, is back in the
\* first entry, and a guest is back in the last one
C24_Witness ==
    /\ room.exists
    /\ result.op = "joinRoom" /\ result.outcome = "ok"
    /\ Len(room.players) = 3
    /\ room.players[1].rejoinedAt = "stamped"
    /\ room.players[1].isActive /\ ~room.players[1].isHost
    /\ room.players[3].rejoinedAt = "stamped"
    /\ room.players[3].userId = result.user

\* the step just taken was a rotation applied by the callback of a timer
TimerMovedTurn ==
    /\ room.exists
    /\ expired' = expired - 1
    /\ result'.op = "rotatePlayerTurn" /\ result'.outcome = "ok"
    /\ ~result'.gameEnded

\* C21: at most one rotation is applied per turn: a rotation applied by the
\* timer ends the turn whose answer started it, also when the host has
\* rotated with next_turn in the meantime, so that no turn-holder loses the
\* turn to a timer without having answered.
C21_TimerEndsAnsweredTurnOnly ==
    [][TimerMovedTurn => room.currentPlayerTurn \in room.answers]_vars

\* the operations that set the turn to a named player
SetTurnOps == {"setPlayerTurn", "set_player_turn"}

\* C25: a set-turn operation, on the request/response path or on the live
\* channel, succeeds only for a playerId that has an entry in players; so a
\* turn set by either path names a member of the room.
C25_TurnSetOnlyToMember ==
    [][(result'.op \in SetTurnOps /\ result'.outcome = "ok")
         => HasPlayer(room.players, room'.currentPlayerTurn)]_vars

\* the operations reserved to the host
HostOps ==
    {"deleteRoom", "start", "setPlayerTurn", "set_player_turn",
     "set_question", "next_turn"}

\* C26: a host-only operation invoked by a user other than the room's
\* current hostId is rejected and leaves the stored room unchanged, and
\* invoked by the current host it passes the host check; the current host is
\* the one leaveRoom left in hostId, so after a transfer the former host is
\* rejected and the new host accepted.
C26_HostOnly ==
    [][result'.op \in HostOps =>
         IF result'.user = room.hostId
         THEN result'.outcome # "NotHost"
         ELSE result'.outcome = "NotHost" /\ room' = room]_vars

\* the creator has lost the host role to user 2 and is turned away
C26_Witness ==
    /\ room.exists
    /\ room.players[1].userId = 1 /\ room.hostId = 2
    /\ result.op \in HostOps /\ result.user = 1
    /\ result.outcome = "NotHost"

\* the live-channel messages that write to the room
LiveOps ==
    {"submit_vote", "submit_answer", "share_answer", "set_question",
     "set_player_turn", "next_turn"}

\* C28: a live-channel message that writes to the room is accepted only
\* from a user who has an entry in the room's players when it is handled; a
\* message from a user without an entry fails and changes nothing in the
\* stored room.
C28_LiveMessagesFromMembersOnly ==
    [][(result'.op \in LiveOps /\ ~HasPlayer(room.players, result'.user))
         => (result'.outcome # "ok" /\ room' = room)]_vars

\* the socket whose message was handled last
From == emitted.from

\* C27: a join_room by a user with no entry in the room's players is refused
\* with an error sent to that connection, which is neither subscribed to the
\* room nor added to roomConnections, and the room is not changed; a user
\* with an entry, active or inactive, is accepted and subscribed.
C27_JoinRoomMembersOnly ==
    [][(result'.op = "join_room" /\ FoundByCode(room)) =>
         IF HasPlayer(room.players, result'.user)
         THEN /\ result'.outcome = "ok"
              /\ From' \in subscribed' /\ From' \in roomConnections'
         ELSE /\ result'.outcome = "NotMember"
              /\ emitted' = Sent(From', {[event |-> "error", to |-> From']})
              /\ From' \notin subscribed' /\ From' \notin roomConnections'
              /\ room' = room]_vars

\* user 3 has just been refused, and a connection of a user whose entry is
\* inactive is subscribed
C27_Witness ==
    /\ result.op = "join_room" /\ result.outcome = "NotMember"
    /\ sockets[From].user = result.user
    /\ From \notin subscribed
    /\ \E t \in subscribed :
          /\ HasPlayer(room.players, sockets[t].user)
          /\ ~IsActiveIn(room.players, sockets[t].user)

\* the live connections of user u
LiveSocketsOf(u) == {s \in SocketIds : Live(s) /\ sockets[s].user = u}

\* the connection of u established last among the live ones
LatestLive(u) == CHOOSE s \in LiveSocketsOf(u) : \A t \in LiveSocketsOf(u) : t <= s

\* C29: the registry of connections by user holds one id per user, and a
\* user with at least one live connection is mapped to the most recently
\* established of their live connections; the disconnect of an older
\* connection does not remove the entry of the newer one.
C29_RegistryHoldsLatestLive ==
    \A u \in Users :
        LiveSocketsOf(u) # {} => activeConnections[u] = LatestLive(u)

\* the messages of the live channel
MessageOps == LiveOps \cup {"join_room", "leave_room"}

\* C30: a live-channel message that fails is reported by one error event,
\* delivered to the connection that sent the message and to no other, and
\* nothing is broadcast to the room.
C30_ErrorsToSenderOnly ==
    [][(result'.op \in MessageOps /\ result'.outcome # "ok") =>
         /\ Live(From') /\ sockets[From'].user = result'.user
         /\ emitted' = Sent(From', {[event |-> "error", to |-> From']})]_vars

\* a message has failed while a connection other than the sender's is
\* subscribed to the room
C30_Witness ==
    /\ result.op \in MessageOps /\ result.outcome # "ok"
    /\ emitted.deliveries = {[event |-> "error", to |-> From]}
    /\ subscribed \ {From} # {}

\* the operations on a room that the routes and the live channel offer to
\* its players
RoomScopedOps ==
    {"joinRoom", "rejoinRoom", "leaveRoom", "submitVote", "submitAnswer",
     "setPlayerTurn", "rotatePlayerTurn"} \cup MessageOps

\* the store holds another document after the step: an update has committed
Committed == room' # room

\* the step has delivered an event of the room to a connection other than
\* the sender's own replies (error, room_state); the request/response
\* operations hold no reference to the live channel and send nothing
Broadcast ==
    /\ result'.op \in MessageOps
    /\ \E d \in emitted'.deliveries : d.event \notin {"error", "room_state"}

\* C31: for every operation on a room, over the routes and over the live
\* channel, the store update commits and the event is broadcast to the
\* room, or neither happens.
C31_MutationIffBroadcast ==
    [][result'.op \in RoomScopedOps => (Committed <=> Broadcast)]_vars

\* the handler of a submit_vote message has sent its vote_update in this step
VoteEmitted == \E u \in Users : voteCalls[u].pc = "written" /\ voteCalls'[u].pc = "done"

\* no submit_vote message is between its read and its vote_update
NoVoteInFlight(vc) == \A u \in Users : vc[u].pc \in {"idle", "done"}

\* the stored votes are those that a finished submit_vote handler wrote
StoredByVote(vc, r) == \E u \in Users : vc[u].pc = "done" /\ vc[u].votes = r.votes

\* C32: the events of one room are sent in the order in which their
\* mutations committed: when submit_vote messages are handled concurrently,
\* the vote_update sent last carries the votes of the write that committed
\* last, so that the last broadcast shows the stored votes.
C32_LastVoteUpdateShowsStore ==
    [][(VoteEmitted /\ NoVoteInFlight(voteCalls')
          /\ StoredByVote(voteCalls', room'))
         => vote_update' = room'.votes]_vars

\* the handler of user u has written its votes object in this step
VoteWritten(u) == voteCalls[u].pc = "read" /\ voteCalls'[u].pc = "written"

\* the votes of the users other than u that r holds
OthersVotes(r, u) ==
    {<<q, e>> \in UNION {{q} \X r.votes[q] : q \in DOMAIN r.votes} :
        e.userId # u}

\* C34: when the vote submissions of different users are handled
\* concurrently, no accepted vote is overwritten by the write of the other
\* handler: the votes of the other users that the store holds are still
\* there after a handler's write, so both votes are stored when both
\* handlers have reported success.
C34_VoteWriteKeepsOthers ==
    [][\A u \in Users : VoteWritten(u) =>
          OthersVotes(room, u) \subseteq OthersVotes(room', u)]_vars

\* C33: after any sequence of createRoom calls, whatever codes the generator
\* returns, no two rooms whose status is pending or active have the same
\* code.
C33_CodesUniqueAmongOpenRooms ==
    \A i, j \in DOMAIN rooms :
        (/\ i # j
         /\ rooms[i].status \in {"pending", "active"}
         /\ rooms[j].status \in {"pending", "active"})
        => rooms[i].code # rooms[j].code

\* the two users of a friendship document, whatever their order
PairOf(doc) == {doc.users[1], doc.users[2]}

\* C35: after any sequence of sendFriendRequest, acceptFriendRequest and
\* removeFriend, each run as a whole, at most one friendship document exists
\* for each unordered pair of users, whichever of the two sent the request.
C35_OneFriendshipPerPair ==
    \A id, other \in DocIds :
        (id # other /\ friendships[id].exists /\ friendships[other].exists)
            => PairOf(friendships[id]) # PairOf(friendships[other])

\* a request has just been refused although its sender has requested no
\* friendship that still exists: the document found was created by a
\* request of another user
C35_Witness ==
    /\ result.op = "sendFriendRequest"
    /\ result.outcome = "FriendshipExists"
    /\ \A id \in DocIds :
          friendships[id].exists => friendships[id].requestedBy # result.user
    /\ \E id, other \in DocIds :
          id # other /\ friendships[id].exists /\ friendships[other].exists

\* no joinRoom and no leaveRoom call is between two of its store accesses
NoCallInFlight ==
    /\ \A u \in Users : calls[u].pc = "idle"
    /\ \A u \in Users : leaveCalls[u].pc \in {"idle", "done"}

\* the entries of players that carry isHost true
HostEntries(ps) == {i \in DOMAIN ps : ps[i].isHost}

\* C36: when a joinRoom of a new user and the leaveRoom of the host have
\* run concurrently on a room, hostId is the userId of the one entry of
\* players with isHost true, and the entry of the host who left is stored
\* inactive.
C36_HostLeftWhileJoining ==
    (room.exists /\ NoCallInFlight /\ leaveCalls[1].pc = "done") =>
        /\ ~IsActiveIn(room.players, 1)
        /\ \E i \in DOMAIN room.players :
              /\ HostEntries(room.players) = {i}
              /\ room.players[i].userId = room.hostId


\* the users with a vote in store, under any prompt id and in either form
Voters(votes) == {u \in Users : VotedPrompts(votes, u) # {}}

\* C37: in every reachable state of a room, votes holds no vote cast by the
\* user named by currentPlayerTurn, also after setPlayerTurn or
\* set_player_turn has moved the turn to a player who has already voted.
C37_NoVoteByTurnHolder ==
    room.exists => room.currentPlayerTurn \notin Voters(room.votes)

\* joinRoom by u would go through: it neither finds no room nor finds it full
JoinWouldSucceed(r, u) ==
    JoinPlan(r, u).kind \notin {"RoomNotFound", "RoomFull"}

\* C38: for every room and every user with no entry in its players,
\* validateRoomCode reports the code valid exactly when joinRoom with that
\* code would succeed, also for rooms that hold inactive players.
C38_ValidateAgreesWithJoin ==
    \A u \in Users :
        (room.exists /\ ~HasPlayer(room.players, u)) =>
            ((ValidateResult(room) = "valid") <=> JoinWouldSucceed(room, u))

\* the members of a sequence
Range(s) == {s[i] : i \in DOMAIN s}

\* C39: while the active players of a room stay the same n players and the
\* turn is changed only by rotatePlayerTurn calls that do not end the game,
\* the first of them made under an active turn-holder, any n rotations in a
\* row give the turn to every active player exactly once.
C39_RoundRobin ==
    (tour.turns # << >> /\ Len(tour.turns) = Len(tour.active)) =>
        /\ Range(tour.turns) = Range(tour.active)
        /\ NoDuplicates(tour.turns)

\* a full run over two active players of a room with an inactive entry
\* between them
C39_Witness ==
    /\ room.exists
    /\ tour.active = <<1, 3>>
    /\ Len(tour.turns) = 2
    /\ HasPlayer(room.players, 2) /\ ~IsActiveIn(room.players, 2)
    /\ result.op = "rotatePlayerTurn"

\* C40: the registry of connections by room holds only ids of sockets that
\* are connected, and no empty set, also when a socket disconnects while its
\* join_room awaits the room lookup. The registry entry of the room is the
\* set roomConnections; the handlers delete the entry together with its last
\* id, so an entry that is present is never empty.
C40_RegistryHoldsLiveSockets ==
    \A s \in roomConnections : Live(s)
====
